---------------------------- MODULE Spec2Model ----------------------------
(***************************************************************************)
(* Port-configuration registry and Cisco template engine of server.py.     *)
(*                                                                         *)
(* The registry handlers are coroutines: a handler runs without            *)
(* interruption up to each `await` on the store, so one action models the  *)
(* code of a handler between two awaits together with the store round-trip *)
(* that ends it.  The store is the MongoDB collection db.port_configs,     *)
(* kept as the sequence of its documents in natural (insertion) order.     *)
(* The collection has no unique index (server.py creates none), so the     *)
(* insert phase of update_one(..., upsert=True) is not serialised with     *)
(* other upserts: an upsert whose query phase matched nothing inserts its  *)
(* document whatever has been inserted meanwhile.                          *)
(***************************************************************************)
EXTENDS Integers, Sequences, FiniteSets, TLC

VARIABLES store, now, nextId, started, req, resp, render

vars == << store, now, nextId, started, req, resp, render >>

regvars == << store, now, nextId, started, req, resp >>

---------------------------------------------------------------------------
(* Bounds of the model and the input domains requests are drawn from.      *)

\* requests that may be started in one behaviour
MaxOps == 2

\* last value of the clock (datetime.utcnow() as the store keeps it)
MaxClock == 2

\* request slots: the handlers that may be in flight at the same time
Clients == {"c1", "c2"}

Switches == {1, 2}

PortNames == {"Gi1/0/1", "Gi1/0/2", "Gi1/0/3"}

PortTypes == {"access", "fiber"}

\* Python's None, distinct from every description and document
None == "None"

Descriptions == {None, "uplink"}

\* the roles of the catalog, in source order
CatalogRoles ==
    { "data_voice", "camera", "trunk_wap", "vape_sensor", "trunk_switch",
      "door_system", "algo_bell", "voip_server", "camera_server",
      "student_vlan8", "printer", "management", "pos_machine", "hyperv" }

\* config_type values that are neither in the catalog nor "reset"/"none"
UnknownTypes == {"voice", ""}

\* config_type values the registry requests are drawn from
ConfigTypes == {"none", "camera", "voice"}

\* the natural keys concurrent write requests are drawn from
Keys == Switches \X {"Gi1/0/1", "Gi1/0/2"}

\* documents left in the collection by earlier runs of the server
SeedA ==
    [id |-> 1, switch_number |-> 1, port_type |-> "access",
     port_name |-> "Gi1/0/1", config_type |-> "camera",
     description |-> None, created_at |-> 0, updated_at |-> 0]

SeedB ==
    [id |-> 2, switch_number |-> 1, port_type |-> "access",
     port_name |-> "Gi1/0/2", config_type |-> "none",
     description |-> "uplink", created_at |-> 0, updated_at |-> 0]

\* the collection when the server starts
Seeds == { << >>, << SeedA >>, << SeedA, SeedB >> }

\* first id uuid4 hands out that no seed document carries
FirstId == SeedB.id + 1

\* inputs of the template engine
RenderTypes == CatalogRoles \cup {"reset", "none"} \cup UnknownTypes

RenderPorts == PortNames \cup {"Te1/1/1"}

---------------------------------------------------------------------------
(* Template engine: generate_port_config.                                  *)

\* faulty variant of Join: a newline after every line, the last included
RECURSIVE Join_newline_after_each(_)
Join_newline_after_each(lines) ==
    IF lines = << >> THEN ""
    ELSE lines[1] \o "\n" \o Join_newline_after_each(Tail(lines))

\* "\n".join(lines)
RECURSIVE Join(_)
Join(lines) ==
    IF lines = << >> THEN ""
    ELSE IF Len(lines) = 1 THEN lines[1]
    ELSE lines[1] \o "\n" \o Join(Tail(lines))

\* the statements each branch of the if/elif chain extends `lines` with
RoleStatements(config_type) ==
    CASE config_type = "data_voice" ->     \* server.py 72-97
           << "description // Data and Voice //",
              "switchport mode access",
              "switchport access vlan 6",
              "switchport voice vlan 4",
              "auto qos voip cisco-phone",
              "switchport port-security",
              "switchport port-security maximum 3",
              "switchport port-security violation restrict",
              "switchport port-security aging time 1",
              "switchport port-security aging type inactivity",
              "switchport nonegotiate",
              "ip dhcp snooping limit rate 15",
              "ip arp inspection limit rate 15",
              "spanning-tree portfast",
              "spanning-tree bpduguard enable",
              "device-tracking attach-policy MERAKI_POLICY",
              "ip flow monitor MERAKI_AVC_IPV4 input",
              "ip flow monitor MERAKI_AVC_IPV4 output",
              "ipv6 flow monitor MERAKI_AVC_IPV6 input",
              "ipv6 flow monitor MERAKI_AVC_IPV6 output",
              "shutdown",
              "no shutdown",
              "exit" >>
      [] config_type = "camera" ->     \* server.py 99-113
           << "description // Camera //",
              "switchport mode access",
              "switchport access vlan 5",
              "spanning-tree portfast",
              "device-tracking attach-policy MERAKI_POLICY",
              "ip flow monitor MERAKI_AVC_IPV4 input",
              "ip flow monitor MERAKI_AVC_IPV4 output",
              "ipv6 flow monitor MERAKI_AVC_IPV6 input",
              "ipv6 flow monitor MERAKI_AVC_IPV6 output",
              "shutdown",
              "no shutdown",
              "exit" >>
      [] config_type = "trunk_wap" ->     \* server.py 115-132
           << "description // TrunkportforWAP //",
              "switchport mode trunk",
              "switchport trunk native vlan 25",
              "switchport trunk allowed vlan 25,4,8,16,20,30,32",
              "switchport nonegotiate",
              "ip dhcp snooping trust",
              "ip arp inspection trust",
              "device-tracking attach-policy MERAKI_POLICY",
              "ip flow monitor MERAKI_AVC_IPV4 input",
              "ip flow monitor MERAKI_AVC_IPV4 output",
              "ipv6 flow monitor MERAKI_AVC_IPV6 input",
              "ipv6 flow monitor MERAKI_AVC_IPV6 output",
              "shutdown",
              "no shutdown",
              "exit" >>
      [] config_type = "vape_sensor" ->     \* server.py 134-148
           << "description // Vape_Sensor //",
              "switchport mode access",
              "switchport access vlan 30",
              "spanning-tree portfast",
              "device-tracking attach-policy MERAKI_POLICY",
              "ip flow monitor MERAKI_AVC_IPV4 input",
              "ip flow monitor MERAKI_AVC_IPV4 output",
              "ipv6 flow monitor MERAKI_AVC_IPV6 input",
              "ipv6 flow monitor MERAKI_AVC_IPV6 output",
              "shutdown",
              "no shutdown",
              "exit" >>
      [] config_type = "trunk_switch" ->     \* server.py 150-165
           << "description // TrunkportforSwitch //",
              "switchport mode trunk",
              "switchport nonegotiate",
              "ip dhcp snooping trust",
              "ip arp inspection trust",
              "device-tracking attach-policy MERAKI_POLICY",
              "ip flow monitor MERAKI_AVC_IPV4 input",
              "ip flow monitor MERAKI_AVC_IPV4 output",
              "ipv6 flow monitor MERAKI_AVC_IPV6 input",
              "ipv6 flow monitor MERAKI_AVC_IPV6 output",
              "shutdown",
              "no shutdown",
              "exit" >>
      [] config_type = "door_system" ->     \* server.py 167-178
           << "description // DoorSystem //",
              "switchport mode access",
              "switchport access vlan 30",
              "spanning-tree portfast",
              "device-tracking attach-policy MERAKI_POLICY",
              "ip flow monitor MERAKI_AVC_IPV4 input",
              "ip flow monitor MERAKI_AVC_IPV4 output",
              "ipv6 flow monitor MERAKI_AVC_IPV6 input",
              "ipv6 flow monitor MERAKI_AVC_IPV6 output" >>
      [] config_type = "algo_bell" ->     \* server.py 180-191
           << "description // Algo 8301 IP Paging //",
              "switchport access vlan 6",
              "switchport mode access",
              "device-tracking attach-policy MERAKI_POLICY",
              "ip flow monitor IPv4_NETFLOW input",
              "ip flow monitor MERAKI_AVC_IPV4 output",
              "ipv6 flow monitor MERAKI_AVC_IPV6 input",
              "ipv6 flow monitor MERAKI_AVC_IPV6 output",
              "spanning-tree portfast" >>
      [] config_type = "voip_server" ->     \* server.py 193-209
           << "description // VoIP_Server //",
              "switchport mode trunk",
              "switchport trunk allowed vlan 250,4",
              "spanning-tree portfast",
              "ip dhcp snooping trust",
              "ip arp inspection trust",
              "device-tracking attach-policy MERAKI_POLICY",
              "ip flow monitor MERAKI_AVC_IPV4 input",
              "ip flow monitor MERAKI_AVC_IPV4 output",
              "ipv6 flow monitor MERAKI_AVC_IPV6 input",
              "ipv6 flow monitor MERAKI_AVC_IPV6 output",
              "shutdown",
              "no shutdown",
              "exit" >>
      [] config_type = "camera_server" ->     \* server.py 211-224
           << "description // NVR Server //",
              "switchport access vlan 5",
              "switchport mode access",
              "ip dhcp snooping trust",
              "ip arp inspection trust",
              "spanning-tree portfast",
              "device-tracking attach-policy MERAKI_POLICY",
              "ip flow monitor MERAKI_AVC_IPV4 input",
              "ip flow monitor MERAKI_AVC_IPV4 output",
              "ipv6 flow monitor MERAKI_AVC_IPV6 input",
              "ipv6 flow monitor MERAKI_AVC_IPV6 output" >>
      [] config_type = "student_vlan8" ->     \* server.py 226-251
           << "description // Student_VLAN //",
              "switchport mode access",
              "switchport access vlan 8",
              "switchport voice vlan 4",
              "auto qos voip cisco-phone",
              "switchport port-security",
              "switchport port-security maximum 3",
              "switchport port-security violation restrict",
              "switchport port-security aging time 1",
              "switchport port-security aging type inactivity",
              "switchport nonegotiate",
              "ip dhcp snooping limit rate 15",
              "ip arp inspection limit rate 15",
              "spanning-tree portfast",
              "spanning-tree bpduguard enable",
              "device-tracking attach-policy MERAKI_POLICY",
              "ip flow monitor MERAKI_AVC_IPV4 input",
              "ip flow monitor MERAKI_AVC_IPV4 output",
              "ipv6 flow monitor MERAKI_AVC_IPV6 input",
              "ipv6 flow monitor MERAKI_AVC_IPV6 output",
              "shutdown",
              "no shutdown",
              "exit" >>
      [] config_type = "printer" ->     \* server.py 253-271
           << "description // Printer //",
              "switchport mode access",
              "switchport access vlan 6",
              "ip dhcp snooping trust",
              "ip arp inspection trust",
              "switchport voice vlan 4",
              "auto qos voip cisco-phone",
              "spanning-tree portfast",
              "device-tracking attach-policy MERAKI_POLICY",
              "ip flow monitor MERAKI_AVC_IPV4 input",
              "ip flow monitor MERAKI_AVC_IPV4 output",
              "ipv6 flow monitor MERAKI_AVC_IPV6 input",
              "ipv6 flow monitor MERAKI_AVC_IPV6 output",
              "shutdown",
              "no shutdown",
              "exit" >>
      [] config_type = "management" ->     \* server.py 273-287
           << "description // Management //",
              "switchport mode access",
              "switchport access vlan 2",
              "ip dhcp snooping trust",
              "ip arp inspection trust",
              "spanning-tree portfast",
              "spanning-tree bpduguard enable",
              "device-tracking attach-policy MERAKI_POLICY",
              "ip flow monitor MERAKI_AVC_IPV4 input",
              "ip flow monitor MERAKI_AVC_IPV4 output",
              "ipv6 flow monitor MERAKI_AVC_IPV6 input",
              "ipv6 flow monitor MERAKI_AVC_IPV6 output" >>
      [] config_type = "pos_machine" ->     \* server.py 289-303
           << "description // POS_Machine //",
              "switchport mode access",
              "switchport access vlan 150",
              "switchport voice vlan 4",
              "device-tracking attach-policy MERAKI_POLICY",
              "ip flow monitor MERAKI_AVC_IPV4 input",
              "ip flow monitor MERAKI_AVC_IPV4 output",
              "ipv6 flow monitor MERAKI_AVC_IPV6 input",
              "ipv6 flow monitor MERAKI_AVC_IPV6 output",
              "shutdown",
              "no shutdown",
              "exit" >>
      [] config_type = "hyperv" ->     \* server.py 305-320
           << "description // Hyper-V //",
              "switchport mode trunk",
              "no switchport trunk allowed vlan",
              "ip dhcp snooping trust",
              "ip arp inspection trust",
              "device-tracking attach-policy MERAKI_POLICY",
              "ip flow monitor MERAKI_AVC_IPV4 input",
              "ip flow monitor MERAKI_AVC_IPV4 output",
              "ipv6 flow monitor MERAKI_AVC_IPV6 input",
              "ipv6 flow monitor MERAKI_AVC_IPV6 output",
              "shutdown",
              "no shutdown",
              "exit" >>
      [] OTHER -> << >>

\* faulty variant: "reset" is rendered with the header of the other roles
generate_port_config_reset_with_header(port_name, config_type) ==
    Join((IF config_type # "none"
          THEN << "default interface " \o port_name,
                  "interface " \o port_name >>
          ELSE << >>)
         \o (IF config_type = "reset"
             THEN << "shutdown", "no shutdown", "exit", "!" >>
             ELSE RoleStatements(config_type)))

\* faulty variant: the statements of a role are emitted last to first
generate_port_config_reversed(port_name, config_type) ==
    IF config_type = "reset"
    THEN Join(<< "interface " \o port_name, "shutdown", "no shutdown",
                 "exit", "!" >>)
    ELSE LET body == RoleStatements(config_type)
         IN  Join((IF config_type # "none"
                   THEN << "default interface " \o port_name,
                           "interface " \o port_name >>
                   ELSE << >>)
                  \o [i \in 1..Len(body) |-> body[Len(body) + 1 - i]])

\* faulty variant: every role of the catalog ends with the trailer
generate_port_config_always_trailer(port_name, config_type) ==
    IF config_type = "reset"
    THEN Join(<< "interface " \o port_name, "shutdown", "no shutdown",
                 "exit", "!" >>)
    ELSE LET body == RoleStatements(config_type)
         IN  Join((IF config_type # "none"
                   THEN << "default interface " \o port_name,
                           "interface " \o port_name >>
                   ELSE << >>)
                  \o body
                  \o (IF body # << >> /\ body[Len(body)] # "exit"
                      THEN << "shutdown", "no shutdown", "exit" >>
                      ELSE << >>))

\* faulty variant: the header is emitted for "none" as well
generate_port_config_header_for_none(port_name, config_type) ==
    IF config_type = "reset"
    THEN Join(<< "interface " \o port_name, "shutdown", "no shutdown",
                 "exit", "!" >>)
    ELSE Join(<< "default interface " \o port_name,
                 "interface " \o port_name >> \o RoleStatements(config_type))

\* faulty variant: no header, so an unmatched config_type renders empty
generate_port_config_no_header(port_name, config_type) ==
    IF config_type = "reset"
    THEN Join(<< "interface " \o port_name, "shutdown", "no shutdown",
                 "exit", "!" >>)
    ELSE Join(RoleStatements(config_type))

generate_port_config(port_name, config_type) ==
    IF config_type = "reset"
    THEN Join(<< "interface " \o port_name, "shutdown", "no shutdown",
                 "exit", "!" >>)
    ELSE Join((IF config_type # "none"
               THEN << "default interface " \o port_name,
                       "interface " \o port_name >>
               ELSE << >>) \o RoleStatements(config_type))

---------------------------------------------------------------------------
(* The store: the operations of a MongoDB collection the handlers use.     *)
(* A query is a function from field names to the values they must equal.   *)

MAX_RESULTS == 1000

EmptyQuery == << >>

\* faulty variant of Matches: one equal field is enough
Matches_any(doc, query) == \E f \in DOMAIN query : doc[f] = query[f]

Matches(doc, query) == \A f \in DOMAIN query : doc[f] = query[f]

\* faulty variant of KeyQuery: the switch is left out of the filter
KeyQuery_port_only(port_name, switch_number) == "port_name" :> port_name

\* the natural key filter {"port_name": ..., "switch_number": ...}
KeyQuery(port_name, switch_number) ==
    ("port_name" :> port_name) @@ ("switch_number" :> switch_number)

\* query = {} extended by each filter that is not None; an optional
\* argument is a sequence that is empty (None) or holds the value
FilterQuery(switch_number, port_type) ==
    (IF switch_number # << >>
     THEN "switch_number" :> switch_number[1] ELSE EmptyQuery)
    @@ (IF port_type # << >> THEN "port_type" :> port_type[1] ELSE EmptyQuery)

\* faulty variant of Take: the length is ignored
Take_all(s, n) == s

Take(s, n) == IF Len(s) <= n THEN s ELSE SubSeq(s, 1, n)

\* find(query).to_list(length): the matching documents in natural order
find(coll, query, length) ==
    LET Test(doc) == Matches(doc, query) IN Take(SelectSeq(coll, Test), length)

\* index of the first matching document, 0 when none matches
FirstMatch(coll, query) ==
    IF \E i \in 1..Len(coll) : Matches(coll[i], query)
    THEN CHOOSE i \in 1..Len(coll) :
            /\ Matches(coll[i], query)
            /\ \A j \in 1..(i - 1) : ~Matches(coll[j], query)
    ELSE 0

\* find_one(query): the first matching document, << >> for None
find_one(coll, query) == find(coll, query, 1)

\* {"$set": fields} applied to a document
SetFields(doc, fields) ==
    [f \in DOMAIN doc \cup DOMAIN fields |->
        IF f \in DOMAIN fields THEN fields[f] ELSE doc[f]]

\* faulty variant of update_one: id and created_at of the matched document
\* are kept
update_one_keep_identity(coll, query, fields) ==
    LET i == FirstMatch(coll, query)
        kept == [f \in DOMAIN fields \ {"id", "created_at"} |-> fields[f]]
    IN  IF i = 0 THEN coll
        ELSE [coll EXCEPT ![i] = SetFields(coll[i], kept)]

\* update_one(query, {"$set": fields}) on a matching document: the
\* collection afterwards (unchanged when no document matches)
update_one(coll, query, fields) ==
    LET i == FirstMatch(coll, query)
    IN  IF i = 0 THEN coll
        ELSE [coll EXCEPT ![i] = SetFields(coll[i], fields)]

\* result.modified_count: 1 when the write changed the matched document
modified_count(coll, query, fields) ==
    LET i == FirstMatch(coll, query)
    IN  IF i # 0 /\ SetFields(coll[i], fields) # coll[i] THEN 1 ELSE 0

\* faulty variant of delete_many: the filter is ignored
delete_many_ignore_filter(coll, query) == << >>

\* delete_many(query): the collection afterwards
delete_many(coll, query) ==
    LET Keep(doc) == ~Matches(doc, query) IN SelectSeq(coll, Keep)

\* result.deleted_count
deleted_count(coll, query) == Len(coll) - Len(delete_many(coll, query))

\* a projection {"_id": 0, f: 1, ...} applied to each document
Project(docs, fields) ==
    [i \in 1..Len(docs) |-> [f \in fields |-> docs[i][f]]]

---------------------------------------------------------------------------
(* Requests and responses.                                                 *)

Idle == [op |-> "idle", pc |-> "idle"]

\* no response leaves the server in this step
NoResp == [op |-> "none"]

\* PortConfigCreate
PortConfigCreate ==
    [switch_number : Switches, port_type : PortTypes, port_name : PortNames,
     config_type : ConfigTypes, description : Descriptions]

\* PortConfigUpdate
PortConfigUpdate == [config_type : ConfigTypes, description : Descriptions]

\* Optional[int] / Optional[str] query parameters
OptSwitch == {<< >>} \cup {<< s >> : s \in Switches}

OptPortType == {<< >>} \cup {<< t >> : t \in PortTypes}

\* PortConfig(**port_dict): id and the two timestamps from their
\* default factories, the second clock read not before the first
PortConfig(port, id, created_at, updated_at) ==
    [id |-> id,
     switch_number |-> port.switch_number,
     port_type |-> port.port_type,
     port_name |-> port.port_name,
     config_type |-> port.config_type,
     description |-> port.description,
     created_at |-> created_at,
     updated_at |-> updated_at]

---------------------------------------------------------------------------
(* Bulk generation: the loop of generate_cisco_code.                       *)

SENTINEL == "! No configured ports found"

\* faulty variant of code_lines: "none" and empty texts are appended too
RECURSIVE code_lines_no_skip(_)
code_lines_no_skip(ports) ==
    IF ports = << >> THEN << >>
    ELSE LET port == Head(ports)
             port_config ==
                 generate_port_config(port.port_name, port.config_type)
         IN  << port_config, "" >> \o code_lines_no_skip(Tail(ports))

\* what the loop appends for each port in turn; the list is evaluated by
\* halves so that a fetch of MAX_RESULTS ports stays within the depth of
\* evaluation
RECURSIVE code_lines(_)
code_lines(ports) ==
    IF ports = << >> THEN << >>
    ELSE IF Len(ports) = 1
    THEN LET port == Head(ports)
             port_config ==
                 generate_port_config(port.port_name, port.config_type)
         IN  IF port.config_type = "none" THEN << >>
             ELSE IF port_config # "" THEN << port_config, "" >>
             ELSE << >>
    ELSE LET half == Len(ports) \div 2
         IN  code_lines(SubSeq(ports, 1, half))
             \o code_lines(SubSeq(ports, half + 1, Len(ports)))

generate_cisco_code_result(ports) ==
    IF ports = << >>
    THEN [code |-> SENTINEL, port_count |-> 0]
    ELSE [code |-> Join(code_lines(ports)), port_count |-> Len(ports)]

---------------------------------------------------------------------------
(* Handlers.  `started` counts the write requests accepted so far.         *)

\* POST /ports up to the await: port_obj = PortConfig(**port.dict())
create_port_config_begin(c, port) ==
    /\ req[c] = Idle
    /\ started < MaxOps
    /\ \E updated_at \in {now, now + 1} :
          /\ updated_at <= MaxClock
          /\ now' = updated_at
          /\ req' = [req EXCEPT ![c] =
                        [op |-> "create", pc |-> "update_one", port |-> port,
                         port_obj |-> PortConfig(port, nextId, now, updated_at)]]
    /\ nextId' = nextId + 1
    /\ started' = started + 1
    /\ resp' = NoResp
    /\ UNCHANGED << store, render >>

\* update_one(key, {"$set": port_obj.dict()}, upsert=True) reaches the
\* store: a matching document is overwritten and the handler returns
\* port_obj; with no match the upsert goes on to insert
create_port_config_update_one(c) ==
    /\ req[c].op = "create"
    /\ req[c].pc = "update_one"
    /\ LET port_obj == req[c].port_obj
           query == KeyQuery(req[c].port.port_name, req[c].port.switch_number)
       IN  IF FirstMatch(store, query) # 0
           THEN /\ store' = update_one(store, query, port_obj)
                /\ req' = [req EXCEPT ![c] = Idle]
                /\ resp' = [op |-> "create", request |-> req[c].port,
                            status |-> 200, body |-> port_obj]
           ELSE /\ store' = store
                /\ req' = [req EXCEPT ![c].pc = "insert"]
                /\ resp' = NoResp
    /\ UNCHANGED << now, nextId, started, render >>

\* the insert of an upsert that matched nothing, then `return port_obj`
create_port_config_insert(c) ==
    /\ req[c].op = "create"
    /\ req[c].pc = "insert"
    /\ store' = Append(store, req[c].port_obj)
    /\ req' = [req EXCEPT ![c] = Idle]
    /\ resp' = [op |-> "create", request |-> req[c].port,
                status |-> 200, body |-> req[c].port_obj]
    /\ UNCHANGED << now, nextId, started, render >>

\* GET /ports
get_port_configs(switch_number, port_type) ==
    /\ resp' = [op |-> "list",
                request |-> [switch_number |-> switch_number,
                             port_type |-> port_type],
                status |-> 200,
                body |-> find(store, FilterQuery(switch_number, port_type),
                              MAX_RESULTS)]
    /\ UNCHANGED << store, now, nextId, started, req, render >>

\* GET /ports/{port_name}
get_port_config(port_name, switch_number) ==
    /\ resp' = [op |-> "get",
                request |-> [port_name |-> port_name,
                             switch_number |-> switch_number],
                status |-> 200,
                body |-> find_one(store, KeyQuery(port_name, switch_number))]
    /\ UNCHANGED << store, now, nextId, started, req, render >>

\* PUT /ports/{port_name} up to the first await: update_dict with the
\* clock read in the handler
update_port_config_begin(c, port_name, switch_number, update) ==
    /\ req[c] = Idle
    /\ started < MaxOps
    /\ req' = [req EXCEPT ![c] =
                  [op |-> "update", pc |-> "update_one",
                   port_name |-> port_name, switch_number |-> switch_number,
                   update_dict |-> [config_type |-> update.config_type,
                                    description |-> update.description,
                                    updated_at |-> now]]]
    /\ started' = started + 1
    /\ resp' = NoResp
    /\ UNCHANGED << store, now, nextId, render >>

\* update_one(key, {"$set": update_dict}), then the modified_count test
update_port_config_update_one(c) ==
    /\ req[c].op = "update"
    /\ req[c].pc = "update_one"
    /\ LET query == KeyQuery(req[c].port_name, req[c].switch_number)
       IN  /\ store' = update_one(store, query, req[c].update_dict)
           /\ IF modified_count(store, query, req[c].update_dict) = 0
              THEN /\ req' = [req EXCEPT ![c] = Idle]
                   /\ resp' = [op |-> "update",
                               request |-> [port_name |-> req[c].port_name,
                                            switch_number |-> req[c].switch_number,
                                            update |-> req[c].update_dict],
                               status |-> 404, body |-> << >>]
              ELSE /\ req' = [req EXCEPT ![c].pc = "find_one"]
                   /\ resp' = NoResp
    /\ UNCHANGED << now, nextId, started, render >>

\* find_one(key), then `return PortConfig(**port)`: a TypeError, answered
\* with status 500, when find_one returned None
update_port_config_find_one(c) ==
    /\ req[c].op = "update"
    /\ req[c].pc = "find_one"
    /\ LET port == find_one(store,
                            KeyQuery(req[c].port_name, req[c].switch_number))
       IN  resp' = [op |-> "update",
                    request |-> [port_name |-> req[c].port_name,
                                 switch_number |-> req[c].switch_number,
                                 update |-> req[c].update_dict],
                    status |-> IF port = << >> THEN 500 ELSE 200,
                    body |-> port]
    /\ req' = [req EXCEPT ![c] = Idle]
    /\ UNCHANGED << store, now, nextId, started, render >>

\* DELETE /ports
reset_all_ports(switch_number) ==
    /\ started < MaxOps
    /\ LET query == FilterQuery(switch_number, << >>)
       IN  /\ store' = delete_many(store, query)
           /\ resp' = [op |-> "delete",
                       request |-> [switch_number |-> switch_number],
                       status |-> 200,
                       body |-> [deleted_count |-> deleted_count(store, query)]]
    /\ started' = started + 1
    /\ UNCHANGED << now, nextId, req, render >>

\* POST /generate-code
generate_cisco_code(switch_number, port_type) ==
    /\ LET ports == Project(find(store,
                                 FilterQuery(<< switch_number >>, << port_type >>),
                                 MAX_RESULTS),
                            {"port_name", "config_type"})
       IN  resp' = [op |-> "generate",
                    request |-> [switch_number |-> switch_number,
                                 port_type |-> port_type],
                    status |-> 200,
                    body |-> generate_cisco_code_result(ports)]
    /\ UNCHANGED << store, now, nextId, started, req, render >>

\* datetime.utcnow() moves on
Tick ==
    /\ now < MaxClock
    /\ now' = now + 1
    /\ resp' = NoResp
    /\ UNCHANGED << store, nextId, started, req, render >>

---------------------------------------------------------------------------
(* The registry under concurrent requests.                                 *)

NoRender == [pc |-> "none"]

Init ==
    /\ store \in Seeds
    /\ now = 1
    /\ nextId = FirstId
    /\ started = 0
    /\ req = [c \in Clients |-> Idle]
    /\ resp = NoResp
    /\ render = NoRender

\* request bodies of the write requests under concurrency
CreateInputs ==
    { [switch_number |-> k[1], port_name |-> k[2], port_type |-> b[1],
       config_type |-> b[2], description |-> b[3]] :
         k \in Keys,
         b \in { << "access", "camera", None >>,
                 << "fiber", "none", "uplink" >> } }

UpdateInputs ==
    { [config_type |-> b[1], description |-> b[2]] :
         b \in { << "camera", None >>, << "none", "uplink" >> } }

Next ==
    \/ \E c \in Clients, port \in CreateInputs :
          create_port_config_begin(c, port)
    \/ \E c \in Clients : create_port_config_update_one(c)
    \/ \E c \in Clients : create_port_config_insert(c)
    \/ \E c \in Clients, k \in Keys, update \in UpdateInputs :
          update_port_config_begin(c, k[2], k[1], update)
    \/ \E c \in Clients : update_port_config_update_one(c)
    \/ \E c \in Clients : update_port_config_find_one(c)
    \/ \E s \in OptSwitch : reset_all_ports(s)
    \/ Tick

Spec == Init /\ [][Next]_vars

\* request bodies of the registry filled by one client at a time: every
\* port and role in the bucket (switch 1, "access"), one camera port in
\* each other bucket
QueryCreateInputs ==
    { port \in PortConfigCreate :
         /\ port.description = None
         /\ \/ port.switch_number = 1 /\ port.port_type = "access"
            \/ port.port_name = "Gi1/0/1" /\ port.config_type = "camera" }

\* one request at a time: a client fills the registry, and list, get and
\* generate read it once the request before them has been answered
NextQuery ==
    \/ \E port \in QueryCreateInputs : create_port_config_begin("c1", port)
    \/ create_port_config_update_one("c1")
    \/ create_port_config_insert("c1")
    \/ req["c1"] = Idle /\ \E s \in OptSwitch, t \in OptPortType :
                              get_port_configs(s, t)
    \/ req["c1"] = Idle /\ \E p \in PortNames, s \in Switches :
                              get_port_config(p, s)
    \/ req["c1"] = Idle /\ \E s \in Switches, t \in PortTypes :
                              generate_cisco_code(s, t)

SpecQuery == Init /\ [][NextQuery]_vars

---------------------------------------------------------------------------
(* The template engine on its own: an input is drawn, then rendered.       *)

RenderCall ==
    /\ render.pc = "call"
    /\ render' = [pc |-> "return", port_name |-> render.port_name,
                  config_type |-> render.config_type,
                  text |-> generate_port_config(render.port_name,
                                                render.config_type)]
    /\ UNCHANGED regvars

InitRender ==
    /\ store = << >>
    /\ now = 1
    /\ nextId = FirstId
    /\ started = 0
    /\ req = [c \in Clients |-> Idle]
    /\ resp = NoResp
    /\ \E p \in RenderPorts, t \in RenderTypes :
          render = [pc |-> "call", port_name |-> p, config_type |-> t]

NextRender == RenderCall

SpecRender == InitRender /\ [][NextRender]_vars

---------------------------------------------------------------------------
(* The registry around the result cap: a store filled by earlier upserts   *)
(* of distinct natural keys, read by list and generate.                    *)

\* how far the number of stored records goes past MAX_RESULTS
MaxOver == 2

\* the i-th record written, for port number k of the given type on switch 1
StoredPort(i, port_type, k) ==
    [id |-> i, switch_number |-> 1, port_type |-> port_type,
     port_name |-> (IF port_type = "access" THEN "Gi1/0/" ELSE "Te1/1/")
                   \o ToString(k),
     config_type |-> IF k = 1 THEN "camera" ELSE "none",
     description |-> None, created_at |-> 0, updated_at |-> 0]

\* the store after upserts of m fiber ports, then n access ports of
\* switch 1, then one port of switch 2
FilledStore(n, m) ==
    [i \in 1..(m + n + 1) |->
        IF i <= m THEN StoredPort(i, "fiber", i)
        ELSE IF i <= m + n THEN StoredPort(i, "access", i - m)
        ELSE [SeedA EXCEPT !.id = i, !.switch_number = 2]]

InitCap ==
    /\ \E n \in (MAX_RESULTS - 1)..(MAX_RESULTS + MaxOver), m \in 0..MaxOver :
          /\ store = FilledStore(n, m)
          /\ nextId = m + n + 2
    /\ now = 1
    /\ started = 0
    /\ req = [c \in Clients |-> Idle]
    /\ resp = NoResp
    /\ render = NoRender

NextCap ==
    \/ \E s \in OptSwitch, t \in OptPortType : get_port_configs(s, t)
    \/ \E s \in Switches, t \in PortTypes : generate_cisco_code(s, t)

SpecCap == InitCap /\ [][NextCap]_vars

---------------------------------------------------------------------------
(* Properties.                                                             *)

\* the documents of the collection with the natural key (s, p), in order
AtKey(coll, s, p) ==
    LET Test(doc) == doc.switch_number = s /\ doc.port_name = p
    IN  SelectSeq(coll, Test)

\* the documents of the collection with switch s and port type t, in order
InBucket(coll, s, t) ==
    LET Test(doc) == doc.switch_number = s /\ doc.port_type = t
    IN  SelectSeq(coll, Test)

\* index of the first document with the natural key (s, p), 0 when none
KeyIndex(coll, s, p) ==
    LET At(i) == coll[i].switch_number = s /\ coll[i].port_name = p
    IN  IF \E i \in 1..Len(coll) : At(i)
        THEN CHOOSE i \in 1..Len(coll) : At(i) /\ \A j \in 1..(i - 1) : ~At(j)
        ELSE 0

Ids(coll) == { coll[i].id : i \in 1..Len(coll) }

\* the client whose create request overwrote a matching document in this step
CreateReplaced(c) ==
    /\ req[c].op = "create"
    /\ req[c].pc = "update_one"
    /\ req'[c] = Idle

\* the client whose update request modified a document in this step
UpdateModified(c) ==
    /\ req[c].op = "update"
    /\ req[c].pc = "update_one"
    /\ req'[c].op = "update"
    /\ req'[c].pc = "find_one"

\* C1: in every reachable state the store holds at most one record for
\* each pair (switch_number, port_name).
C1_OneRecordPerNaturalKey ==
    \A i, j \in 1..Len(store) :
        (/\ store[i].switch_number = store[j].switch_number
         /\ store[i].port_name = store[j].port_name) => i = j

\* C2: an Update answered NotFound found no record with its natural key
\* (an Update on a key that has a record succeeds).
C2_NotFoundOnlyWhenAbsent ==
    (resp.op = "update" /\ resp.status = 404) =>
        AtKey(store, resp.request.switch_number, resp.request.port_name) = << >>

\* C3: after Upsert(input) the record Get returns for the key carries the
\* five input fields, and when every record of the key was written by an
\* Upsert with this same input, exactly one record has the key.
C3_UpsertRoundTripAndIdempotent ==
    resp.op = "create" =>
        LET input == resp.request
            got == find_one(store,
                            KeyQuery(input.port_name, input.switch_number))
            same == AtKey(store, input.switch_number, input.port_name)
            Fields(doc) == [f \in DOMAIN input |-> doc[f]]
        IN  /\ got # << >>
            /\ Fields(got[1]) = input
            /\ (\A i \in 1..Len(same) : Fields(same[i]) = input)
                  => Len(same) = 1

\* C4: an Upsert on a natural key that already has a record replaces it:
\* the stored record is the returned one, with a fresh id, the call's own
\* created_at/updated_at and its port_type, and the prior id is gone.
C4_UpsertReplacesRecord ==
    [][\A c \in Clients :
         CreateReplaced(c) =>
            LET port == req[c].port
                i == KeyIndex(store, port.switch_number, port.port_name)
                old == store[i]
                new == store'[i]
            IN  /\ i # 0
                /\ Len(store') = Len(store)
                /\ new = resp'.body
                /\ new.id \notin Ids(store)
                /\ old.id \notin Ids(store')
                /\ new.port_type = port.port_type
                /\ new.created_at = req[c].port_obj.created_at
                /\ new.updated_at = req[c].port_obj.updated_at
                /\ new.created_at <= new.updated_at
                /\ new.updated_at <= now
                /\ \A j \in 1..Len(store) : j # i => store'[j] = store[j]
      ]_vars

C4_Witness ==
    /\ resp.op = "create"
    /\ Len(store) = 2
    /\ store[1] = resp.body
    /\ store[2] = SeedB
    /\ store[1].port_type # SeedA.port_type
    /\ store[1].created_at > SeedA.created_at

\* what a successful Update leaves alone: every field of the targeted
\* record but config_type, description and updated_at, and every other
\* record
UpdateFrame(c) ==
    LET i == KeyIndex(store, req[c].switch_number, req[c].port_name)
    IN  /\ i # 0
        /\ Len(store') = Len(store)
        /\ \A f \in {"id", "switch_number", "port_type", "port_name",
                     "created_at"} : store'[i][f] = store[i][f]
        /\ store'[i].config_type = req[c].update_dict.config_type
        /\ store'[i].description = req[c].update_dict.description
        /\ \A j \in 1..Len(store) : j # i => store'[j] = store[j]

\* C5 as stated: a successful Update changes only config_type, description
\* and updated_at of the targeted record, leaves every other record
\* unchanged, and advances updated_at past its previous value.
C5_UpdateAdvancesUpdatedAt ==
    [][\A c \in Clients :
         UpdateModified(c) =>
            LET i == KeyIndex(store, req[c].switch_number, req[c].port_name)
            IN  UpdateFrame(c) /\ store'[i].updated_at > store[i].updated_at
      ]_vars

\* C5 amended: a successful Update changes only config_type, description
\* and updated_at of the targeted record, leaves every other record
\* unchanged, and sets updated_at to the clock value the call read.
C5_UpdateFrameAndTimestamp ==
    [][\A c \in Clients :
         UpdateModified(c) =>
            LET i == KeyIndex(store, req[c].switch_number, req[c].port_name)
            IN  /\ UpdateFrame(c)
                /\ store'[i].updated_at = req[c].update_dict.updated_at
                /\ store'[i].updated_at <= now
      ]_vars

C5_Witness ==
    \E c \in Clients :
        /\ req[c].op = "update"
        /\ req[c].pc = "find_one"
        /\ Len(store) = 2
        /\ store[2] = SeedB
        /\ store[1].id = SeedA.id
        /\ store[1].config_type # SeedA.config_type
        /\ store[1].description # SeedA.description
        /\ store[1].updated_at > SeedA.updated_at

\* the text of the rendered blocks of the fetched records, each block and
\* each blank separator line ended by a newline
RECURSIVE RenderedBlocks(_)
RenderedBlocks(docs) ==
    IF docs = << >> THEN ""
    ELSE LET doc == Head(docs)
             text == generate_port_config(doc.port_name, doc.config_type)
         IN  (IF doc.config_type # "none" /\ text # ""
              THEN text \o "\n" \o "\n"
              ELSE "") \o RenderedBlocks(Tail(docs))

\* the records a GenerateCode response was computed from
Fetched == InBucket(store, resp.request.switch_number, resp.request.port_type)

\* C6: when at least one record matches, GenerateCode returns port_count
\* equal to the number of records fetched and text equal to the rendered
\* blocks, each followed by one blank line, of the fetched records that
\* are not "none" and render non-empty, in fetch order (the text is joined
\* by newlines, so the last line carries no newline).
C6_GenerateCodeConcatenates ==
    (resp.op = "generate" /\ Fetched # << >>) =>
        /\ resp.body.port_count = Len(Fetched)
        /\ IF RenderedBlocks(Fetched) = ""
           THEN resp.body.code = ""
           ELSE resp.body.code \o "\n" = RenderedBlocks(Fetched)

C6_Witness ==
    /\ resp.op = "generate"
    /\ Len(Fetched) >= 3
    /\ resp.body.port_count = Len(Fetched)
    /\ \E i, j, k \in 1..Len(Fetched) :
          /\ i < j
          /\ j < k
          /\ Fetched[i].config_type = "camera"
          /\ Fetched[j].config_type = "none"
          /\ Fetched[k].config_type = "voice"
    /\ resp.body.code # ""

\* C7: GenerateCode returns the sentinel text with port_count 0 exactly
\* when no stored record matches both switch_number and port_type.
C7_SentinelIffNoMatch ==
    resp.op = "generate" =>
        IF \E i \in 1..Len(store) :
              /\ store[i].switch_number = resp.request.switch_number
              /\ store[i].port_type = resp.request.port_type
        THEN resp.body.code # SENTINEL /\ resp.body.port_count > 0
        ELSE resp.body.code = SENTINEL /\ resp.body.port_count = 0

C7_Witness ==
    /\ resp.op = "generate"
    /\ resp.body = [code |-> SENTINEL, port_count |-> 0]
    /\ \E i \in 1..Len(store) :
          /\ store[i].switch_number = resp.request.switch_number
          /\ store[i].port_type # resp.request.port_type
    /\ \E i \in 1..Len(store) :
          /\ store[i].switch_number # resp.request.switch_number
          /\ store[i].port_type = resp.request.port_type

\* C8: render(p, "none") is the empty string for every port name p, and
\* GenerateCode over matched records that all have config_type "none"
\* returns their number as port_count with empty text.
C8_NoneRendersNothing ==
    /\ \A p \in RenderPorts : generate_port_config(p, "none") = ""
    /\ (/\ resp.op = "generate"
        /\ Fetched # << >>
        /\ \A i \in 1..Len(Fetched) : Fetched[i].config_type = "none")
           => resp.body = [code |-> "", port_count |-> Len(Fetched)]

C8_Witness ==
    /\ resp.op = "generate"
    /\ Len(Fetched) >= 2
    /\ \A i \in 1..Len(Fetched) : Fetched[i].config_type = "none"
    /\ resp.body.code = ""
    /\ resp.body.port_count = Len(Fetched)

\* C9 as stated: an unrecognized config_type renders to the empty string.
C9_UnknownRendersEmpty ==
    (render.pc = "return" /\ render.config_type \in UnknownTypes)
        => render.text = ""

\* C9 amended: render returns a text for every input, and the only
\* config_type that renders to the empty string is "none": an
\* unrecognized config_type renders to a non-empty text.
C9_OnlyNoneRendersEmpty ==
    /\ render.pc = "call" => ENABLED RenderCall
    /\ render.pc = "return" =>
          (render.text = "" <=> render.config_type = "none")

C9_Witness ==
    /\ render.pc = "return"
    /\ render.config_type \in UnknownTypes
    /\ render.text # ""

\* the two header lines of an interface
Header(port_name) ==
    "default interface " \o port_name \o "\n" \o "interface " \o port_name

RECURSIVE HeaderBlocks(_)
HeaderBlocks(docs) ==
    IF docs = << >> THEN ""
    ELSE Header(Head(docs).port_name) \o "\n" \o "\n"
         \o HeaderBlocks(Tail(docs))

\* C10: for a config_type that is neither "reset" nor "none" and is not in
\* the catalog, render(p, config_type) is exactly the two header lines
\* joined by one newline, and GenerateCode emits that header block plus a
\* blank separator line for each such record.
C10_UnknownRendersHeaderOnly ==
    /\ \A p \in RenderPorts, t \in UnknownTypes :
          generate_port_config(p, t) = Header(p)
    /\ (/\ resp.op = "generate"
        /\ Fetched # << >>
        /\ \A i \in 1..Len(Fetched) :
              Fetched[i].config_type \in UnknownTypes)
           => resp.body.code \o "\n" = HeaderBlocks(Fetched)

C10_Witness ==
    /\ resp.op = "generate"
    /\ Len(Fetched) >= 2
    /\ \A i \in 1..Len(Fetched) : Fetched[i].config_type \in UnknownTypes
    /\ resp.body.port_count = Len(Fetched)
    /\ resp.body.code # ""

---------------------------------------------------------------------------
(* Properties of the rendered text.                                        *)

\* the positions at which a text is cut into lines: before its first
\* character, at each newline character, and after its last character
Breaks(text) ==
    {0} \cup {i \in 1..Len(text) : SubSeq(text, i, i) = "\n"}
        \cup {Len(text) + 1}

\* the k-th smallest element of a set of numbers
Nth(S, k) == CHOOSE b \in S : Cardinality({c \in S : c < b}) = k - 1

\* the lines of a text: its pieces between newline characters
Lines(text) ==
    LET cuts == Breaks(text)
    IN  [k \in 1..(Cardinality(cuts) - 1) |->
            SubSeq(text, Nth(cuts, k) + 1, Nth(cuts, k + 1) - 1)]

\* whether a line starts with the given words
StartsWith(line, prefix) ==
    Len(line) >= Len(prefix) /\ SubSeq(line, 1, Len(prefix)) = prefix

\* the lines of the text the engine returned
Rendered == Lines(render.text)

\* C11: for every port name p, render(p, "reset") is exactly the lines
\* "interface p", "shutdown", "no shutdown", "exit" and the separator "!",
\* joined by single newlines with no trailing newline, and holds no
\* "default interface" header, no description and no VLAN assignment.
C11_ResetIsShutdownSequence ==
    (render.pc = "return" /\ render.config_type = "reset") =>
        /\ render.text = "interface " \o render.port_name
                         \o "\nshutdown\nno shutdown\nexit\n!"
        /\ Rendered = << "interface " \o render.port_name, "shutdown",
                         "no shutdown", "exit", "!" >>
        /\ \A i \in 1..Len(Rendered) :
              /\ ~StartsWith(Rendered[i], "default interface")
              /\ ~StartsWith(Rendered[i], "description")
              /\ ~StartsWith(Rendered[i], "switchport")

C11_Witness ==
    /\ render.pc = "return"
    /\ render.config_type = "reset"
    /\ render.port_name = "Te1/1/1"
    /\ Len(Rendered) = 5
    /\ Rendered[5] = "!"

\* the last n lines of a sequence of lines (all of them if it has fewer)
LastLines(lines, n) ==
    SubSeq(lines, IF Len(lines) > n THEN Len(lines) - n + 1 ELSE 1, Len(lines))

\* the shutdown / no shutdown / exit trailer
Trailer == << "shutdown", "no shutdown", "exit" >>

\* whether the statement list of a role of the catalog ends with the trailer
HasTrailer(config_type) == LastLines(RoleStatements(config_type), 3) = Trailer

\* the engine has returned the text of a role of the catalog
RenderedRole == render.pc = "return" /\ render.config_type \in CatalogRoles

\* C12: for every role of the catalog and every port name p, the rendered
\* text starts with exactly the two header lines "default interface p" and
\* "interface p", followed by the statements of the role; when the role has
\* the trailer the last three lines are "shutdown", "no shutdown", "exit",
\* and when it has none the text does not end with an "exit" line.
C12_HeaderStatementsTrailer ==
    RenderedRole =>
        /\ Len(Rendered) = 2 + Len(RoleStatements(render.config_type))
        /\ Len(Rendered) > 2
        /\ SubSeq(Rendered, 1, 2) = << "default interface " \o render.port_name,
                                   "interface " \o render.port_name >>
        /\ SubSeq(Rendered, 3, Len(Rendered)) = RoleStatements(render.config_type)
        /\ \A i \in 3..Len(Rendered) :
              /\ ~StartsWith(Rendered[i], "default interface")
              /\ ~StartsWith(Rendered[i], "interface")
        /\ HasTrailer(render.config_type) => LastLines(Rendered, 3) = Trailer
        /\ ~HasTrailer(render.config_type) => Rendered[Len(Rendered)] # "exit"

C12_Witness ==
    /\ RenderedRole
    /\ render.config_type = "trunk_wap"
    /\ render.port_name = "Gi1/0/2"
    /\ HasTrailer("trunk_wap")
    /\ ~HasTrailer("management")
    /\ LastLines(Rendered, 3) = Trailer

\* C13 as stated: the roles of the catalog whose text omits the trailer are
\* exactly door_system, management and camera_server, and the text of every
\* other role of the catalog holds the trailer followed by the closing
\* separator line "!".
C13_TrailerOmittedByThree ==
    RenderedRole =>
        IF render.config_type \in {"door_system", "management", "camera_server"}
        THEN LastLines(Rendered, 3) # Trailer
        ELSE /\ Len(Rendered) > 3
             /\ Rendered[Len(Rendered)] = "!"
             /\ SubSeq(Rendered, Len(Rendered) - 3, Len(Rendered) - 1) = Trailer

\* C13, amended: the roles of the catalog whose text omits the trailer are
\* exactly door_system, algo_bell, camera_server and management; the text of
\* every other role of the catalog ends with the three trailer lines, and no
\* role of the catalog emits a separator line "!".
C13_TrailerOmittedByFour ==
    RenderedRole =>
        /\ IF render.config_type \in
                {"door_system", "algo_bell", "camera_server", "management"}
           THEN /\ LastLines(Rendered, 3) # Trailer
                /\ \A i \in 1..Len(Rendered) :
                      Rendered[i] \notin {"shutdown", "no shutdown", "exit"}
           ELSE LastLines(Rendered, 3) = Trailer
        /\ \A i \in 1..Len(Rendered) : Rendered[i] # "!"

C13_Witness ==
    /\ RenderedRole
    /\ render.config_type = "algo_bell"
    /\ Rendered[Len(Rendered)] = "spanning-tree portfast"
    /\ HasTrailer("printer")

\* index of the first line that starts with the given words, 0 if none does
FirstLine(lines, prefix) ==
    IF \E i \in 1..Len(lines) : StartsWith(lines[i], prefix)
    THEN CHOOSE i \in 1..Len(lines) :
            /\ StartsWith(lines[i], prefix)
            /\ \A j \in 1..(i - 1) : ~StartsWith(lines[j], prefix)
    ELSE 0

\* the lines of a rendered text after its two header lines
Statements(lines) == SubSeq(lines, 3, Len(lines))

\* C18: in every role of the catalog whose statements hold a port-security
\* statement, "switchport mode access" is rendered before the first
\* port-security statement; and the statements of a role are the same, in the
\* same order, in every call, whatever the port name.
C18_ModeAccessBeforePortSecurity ==
    RenderedRole =>
        /\ FirstLine(Rendered, "switchport port-security") # 0 =>
              /\ FirstLine(Rendered, "switchport mode access") # 0
              /\ FirstLine(Rendered, "switchport mode access")
                    < FirstLine(Rendered, "switchport port-security")
        /\ \A p \in RenderPorts :
              Statements(Lines(generate_port_config(p, render.config_type)))
                  = Statements(Rendered)

C18_Witness ==
    /\ RenderedRole
    /\ render.config_type = "student_vlan8"
    /\ FirstLine(Rendered, "switchport port-security") > 3
    /\ FirstLine(Rendered, "switchport mode access") > 2
    /\ FirstLine(Rendered, "switchport mode access")
          < FirstLine(Rendered, "switchport port-security")

---------------------------------------------------------------------------
(* Properties of DeleteAll and of Update under concurrency.                *)

\* C14: DeleteAll(switch_number) removes exactly the records of that
\* switch, answers with the number of records removed and leaves the
\* records of the other switches as they were, in their order; DeleteAll
\* without a filter removes every record, answers with the number of records
\* the store held, and a List that follows returns the empty list.
C14_DeleteAllFrame ==
    [][resp'.op = "delete" =>
          LET s == resp'.request.switch_number
              Gone(doc) == s = << >> \/ doc.switch_number = s[1]
              Stays(doc) == ~Gone(doc)
          IN  /\ resp'.status = 200
              /\ store' = SelectSeq(store, Stays)
              /\ resp'.body.deleted_count = Len(SelectSeq(store, Gone))
              /\ Len(store') + resp'.body.deleted_count = Len(store)
              /\ s = << >> =>
                    /\ store' = << >>
                    /\ resp'.body.deleted_count = Len(store)
                    /\ find(store', FilterQuery(<< >>, << >>), MAX_RESULTS)
                          = << >>
      ]_vars

\* a DeleteAll of switch 1 has removed the two records of an earlier run and
\* left the record of switch 2
C14_Witness ==
    /\ resp.op = "delete"
    /\ resp.request.switch_number = << 1 >>
    /\ resp.body.deleted_count = Len(<< SeedA, SeedB >>)
    /\ store # << >>
    /\ \A i \in 1..Len(store) : store[i].switch_number # 1

\* C16: an Update call ends either in NotFound or in the full record of
\* the targeted natural key with the config_type and the description that
\* call supplied, whatever Upsert and DeleteAll requests run beside it.
C16_UpdateIsAtomic ==
    resp.op = "update" =>
        \/ resp.status = 404
        \/ /\ resp.status = 200
           /\ resp.body # << >>
           /\ resp.body[1].port_name = resp.request.port_name
           /\ resp.body[1].switch_number = resp.request.switch_number
           /\ resp.body[1].config_type = resp.request.update.config_type
           /\ resp.body[1].description = resp.request.update.description

\* C17: every stored record has created_at <= updated_at in every
\* reachable state.
C17_CreatedNotAfterUpdated ==
    \A i \in 1..Len(store) : store[i].created_at <= store[i].updated_at

---------------------------------------------------------------------------
(* Properties of the result cap.                                           *)

\* the stored records that satisfy the filters of the answered request, in
\* store order; a filter is an empty sequence when it was not supplied
Satisfying ==
    LET s == resp.request.switch_number
        t == resp.request.port_type
        Sat(doc) == /\ s = << >> \/ doc.switch_number = s[1]
                    /\ t = << >> \/ doc.port_type = t[1]
    IN  SelectSeq(store, Sat)

\* C15: List returns only records that satisfy every supplied filter (all
\* records when none is supplied), all of them when fewer than MAX_RESULTS
\* satisfy them, and never more than MAX_RESULTS; GenerateCode fetches with
\* the same cap, so its port_count never exceeds MAX_RESULTS.
C15_ListFiltersAndCaps ==
    /\ resp.op = "list" =>
          /\ Len(resp.body) <= MAX_RESULTS
          /\ Len(resp.body) <= Len(Satisfying)
          /\ resp.body = SubSeq(Satisfying, 1, Len(resp.body))
          /\ Len(Satisfying) < MAX_RESULTS => resp.body = Satisfying
          /\ (resp.request.switch_number = << >>
                 /\ resp.request.port_type = << >>
                 /\ Len(store) < MAX_RESULTS) => resp.body = store
    /\ resp.op = "generate" =>
          LET matching == InBucket(store, resp.request.switch_number,
                                   resp.request.port_type)
          IN  /\ resp.body.port_count <= MAX_RESULTS
              /\ Len(matching) <= MAX_RESULTS =>
                    resp.body.port_count = Len(matching)
              /\ Len(matching) > MAX_RESULTS =>
                    resp.body.port_count = MAX_RESULTS

\* a List of the access ports of switch 1 was cut at the cap
C15_Witness ==
    /\ resp.op = "list"
    /\ resp.request.switch_number = << 1 >>
    /\ resp.request.port_type = << "access" >>
    /\ Len(Satisfying) > MAX_RESULTS
    /\ Len(resp.body) = MAX_RESULTS

=============================================================================
